---- MODULE Spec2Model ----
(***************************************************************************)
(* A model of tubesync's task orchestration core (sync/tasks.py): the      *)
(* background task store the stages are scheduled on, and the pipeline     *)
(* stages that run against the catalog of Source and Media rows.           *)
(***************************************************************************)
EXTENDS Integers, Sequences, FiniteSets, TLC

\* ------------------------------------------------------------------ bounds
\* Task rows ever inserted into the task store.
MaxSerial == 4
\* Media rows ever instantiated (primary keys handed out).
MaxPk == 4
\* The clock runs over the days 0..MaxTime.
MaxTime == 2

\* ------------------------------------------------------------- identifiers
Workers == {"w1", "w2"}
SourceIds == {"s1", "s2"}
MediaServerIds == {"ms1", "ms2"}
\* Media ids the external triggers schedule download tasks for.
StoreMediaIds == {"m1"}

\* The keys (video ids) the remote sources know, and an item without a key.
Keys == {"a", "b"}
NoKey == ""
Videos == Keys \cup {NoKey}

INDEX == "sync.tasks.index_source_task"
DOWNLOAD == "sync.tasks.download_media"
RESCAN == "sync.tasks.rescan_media_server"
METADATA == "sync.tasks.download_media_metadata"
THUMBNAIL == "sync.tasks.download_media_thumbnail"
TaskNames == {INDEX, DOWNLOAD, RESCAN}

\* The first argument a task of each kind is scheduled with.
ArgsOf(task_name) ==
    IF task_name = INDEX THEN SourceIds
    ELSE IF task_name = DOWNLOAD THEN StoreMediaIds
    ELSE MediaServerIds

VARIABLES
    pending,      \* Task rows waiting to run
    locked,       \* per worker: the Task row it is running, or NoTask
    completed,    \* CompletedTask rows
    nextSerial,   \* primary key of the next Task row
    mediaservers, \* MediaServer rows (their ids)
    cancelled,    \* history: serials of the rows delete_task_by_source removed
    lastOp        \* history: the store operation of the last step

VARIABLES
    source,       \* Source rows, by id
    media,        \* Media rows
    nextPk,       \* primary key of the next Media instance
    upstream,     \* per source: the items its remote enumeration returns
    now,          \* the clock, in days
    wk,           \* per worker: the stage it runs and the stage's locals
    lastIndexed,  \* history, per source: the items its last successful index saw
    call          \* the last call of a task-list helper: its input and its result

storeVars == <<pending, locked, completed, nextSerial, mediaservers, cancelled, lastOp>>
pipeVars == <<source, media, nextPk, upstream, now, wk, lastIndexed, call>>
pipeVarsButWk == <<source, media, nextPk, upstream, now, lastIndexed, call>>

vars == <<storeVars, pipeVars>>

\* ------------------------------------------------------------ task identity
\* sha1 of the task name and the JSON of ((str(pk),), {}): one value per
\* (task name, pk) pair.
get_hash(task_name, pk) == <<task_name, <<pk>>>>

NoTask == [serial |-> 0, task_name |-> "", arg |-> "", queue |-> "",
           task_hash |-> <<"", <<"">>>>, attempts |-> 0]

Row(serial, task_name, arg, queue) ==
    [serial |-> serial, task_name |-> task_name, arg |-> arg, queue |-> queue,
     task_hash |-> get_hash(task_name, arg), attempts |-> 0]

InFlight == {locked[w] : w \in Workers} \ {NoTask}

\* --------------------------------------------------------------- task store
\* A replacement for enqueue that never looks at the tasks in flight.
enqueue_ignoring_in_flight(pend, inflight, serial, task_name, arg, queue, replace_existing) ==
    LET same == {t \in pend : t.task_hash = get_hash(task_name, arg)}
    IN  IF same = {} THEN pend \cup {Row(serial, task_name, arg, queue)}
        ELSE IF replace_existing
             THEN (pend \ same) \cup {Row(serial, task_name, arg, queue)}
             ELSE pend

\* A replacement for enqueue that inserts a row on every call.
enqueue_always_inserting(pend, inflight, serial, task_name, arg, queue, replace_existing) ==
    pend \cup {Row(serial, task_name, arg, queue)}

\* enqueue(kind, args, lane, ..., replace_existing): the pending set after the
\* call. An id that is pending is replaced (replace_existing) or left alone; an
\* id that is in flight is unresolved, and the call adds nothing.
enqueue(pend, inflight, serial, task_name, arg, queue, replace_existing) ==
    LET h == get_hash(task_name, arg)
        same == {t \in pend : t.task_hash = h}
    IN  IF \E t \in inflight : t.task_hash = h THEN pend
        ELSE IF same = {} THEN pend \cup {Row(serial, task_name, arg, queue)}
        ELSE IF replace_existing
             THEN (pend \ same) \cup {Row(serial, task_name, arg, queue)}
             ELSE pend

\* The serial the next row takes after a call that turned pend into pend2.
SerialAfter(pend, pend2, serial) ==
    IF \E t \in pend2 : t.serial = serial THEN serial + 1 ELSE serial

\* A replacement for dequeue_ready that leaves the row in the pending set.
dequeue_ready_keeping(pend, t) == pend

\* dequeue_ready: the pending set after worker takes row t.
dequeue_ready(pend, t) == pend \ {t}

\* A replacement for delete_task_by_source that forgets the queue filter.
delete_task_by_source_any_queue(pend, task_name, source_id) ==
    {t \in pend : ~(t.task_name = task_name)}

\* Task.objects.filter(task_name=task_name, queue=str(source_id)).delete()
delete_task_by_source(pend, task_name, source_id) ==
    {t \in pend : ~(t.task_name = task_name /\ t.queue = source_id)}

\* A replacement for ScheduleRescans whose calls insert a row each.
RECURSIVE ScheduleRescans_stacking(_, _, _, _, _)
ScheduleRescans_stacking(pend, inflight, serial, servers, queue) ==
    IF servers = {} THEN [pend |-> pend, serial |-> serial]
    ELSE LET ms == CHOOSE x \in servers : TRUE
         IN  ScheduleRescans_stacking(pend \cup {Row(serial, RESCAN, ms, queue)},
                                      inflight, serial + 1, servers \ {ms}, queue)

\* download_media's last loop: one rescan_media_server call per MediaServer
\* row, queue=str(media.source.pk), remove_existing_tasks=True.
RECURSIVE ScheduleRescans(_, _, _, _, _)
ScheduleRescans(pend, inflight, serial, servers, queue) ==
    IF servers = {} THEN [pend |-> pend, serial |-> serial]
    ELSE LET ms == CHOOSE x \in servers : TRUE
             p2 == enqueue(pend, inflight, serial, RESCAN, ms, queue, TRUE)
         IN  ScheduleRescans(p2, inflight, SerialAfter(pend, p2, serial),
                             servers \ {ms}, queue)

\* The source a media the triggers know belongs to.
StoreMediaSource(m) == "s1"

\* ------------------------------------------------------------------ catalog
\* An optional value (a nullable column) is a set: {} is None, {x} is x.
None == {}

\* Media(key=key): a new instance with the model's defaults and a fresh pk.
NewMedia(pk, s, key) ==
    [pk |-> pk, source |-> s, key |-> key, skip |-> FALSE, manual_skip |-> FALSE,
     can_download |-> FALSE, downloaded |-> FALSE, download_date |-> None,
     media_file |-> FALSE, published |-> None, metadata |-> FALSE,
     thumb |-> FALSE, downloaded_format |-> None, downloaded_height |-> None,
     downloaded_width |-> None, downloaded_audio_codec |-> None,
     downloaded_video_codec |-> None, downloaded_container |-> None,
     downloaded_fps |-> None, downloaded_hdr |-> None,
     downloaded_filesize |-> None]

NoMedia == NewMedia(0, "", "")

\* Media.save(): an UPDATE of the row with the instance's pk, or an INSERT when
\* no row has it; (source, key) is unique, and a second row with the pair is
\* refused with an IntegrityError.
save(rows, m) ==
    LET others == {r \in rows : r.pk # m.pk}
    IN  IF \E r \in others : r.source = m.source /\ r.key = m.key
        THEN [ok |-> FALSE, rows |-> rows]
        ELSE [ok |-> TRUE, rows |-> others \cup {m}]

\* settings.COMPLETED_TASKS_DAYS_TO_KEEP, by default
COMPLETED_TASKS_DAYS_TO_KEEP == 30

\* cleanup_completed_tasks: the CompletedTask rows the sweep leaves.
cleanup_completed_tasks(log, t) ==
    {c \in log : ~(c.run_at < t - COMPLETED_TASKS_DAYS_TO_KEEP)}

\* A replacement for cleanup_old_media that forgets the days_to_keep__gt=0 filter.
cleanup_old_media_any_days(rows, srcs, t) ==
    {m \in rows :
        /\ srcs[m.source].delete_old_media
        /\ m.downloaded
        /\ \E d \in m.download_date : d < t - srcs[m.source].days_to_keep}

\* cleanup_old_media: the Media rows the sweep deletes at time t. For each
\* source with delete_old_media=True and days_to_keep > 0, its media with
\* downloaded=True and download_date < now - days_to_keep.
cleanup_old_media(rows, srcs, t) ==
    {m \in rows :
        /\ srcs[m.source].delete_old_media /\ srcs[m.source].days_to_keep > 0
        /\ m.downloaded
        /\ \E d \in m.download_date : d < t - srcs[m.source].days_to_keep}

\* A replacement for cleanup_removed_media that forgets the downloaded filter.
cleanup_removed_media_any(rows, s, videos) ==
    {m \in rows : m.source = s /\ ~(\E v \in videos : v = m.key)}

\* cleanup_removed_media(source, videos): the Media rows the sweep deletes:
\* the source's downloaded media whose key no video of the enumeration has.
cleanup_removed_media(rows, s, videos) ==
    {m \in rows : m.source = s /\ m.downloaded /\ ~(\E v \in videos : v = m.key)}

\* ------------------------------------------------------------------ strings
\* A str is a sequence of one-character strings.
\* c in s
Contains(s, c) == \E i \in 1..Len(s) : s[i] = c

\* s.find(c) + 1, for a c that s contains
IndexOf(s, c) == CHOOSE i \in 1..Len(s) : s[i] = c /\ \A j \in 1..(i - 1) : s[j] # c

\* s.split(sep)
RECURSIVE split(_, _)
split(s, sep) ==
    IF ~Contains(s, sep) THEN <<s>>
    ELSE LET i == IndexOf(s, sep)
         IN  <<SubSeq(s, 1, i - 1)>> \o split(SubSeq(s, i + 1, Len(s)), sep)

\* s.split(sep, 1)
split_once(s, sep) ==
    IF ~Contains(s, sep) THEN <<s>>
    ELSE LET i == IndexOf(s, sep)
         IN  <<SubSeq(s, 1, i - 1), SubSeq(s, i + 1, Len(s))>>

Whitespace == {" ", "\n"}

\* s.strip()
RECURSIVE strip(_)
strip(s) ==
    IF s = <<>> THEN s
    ELSE IF s[1] \in Whitespace THEN strip(Tail(s))
    ELSE IF s[Len(s)] \in Whitespace THEN strip(SubSeq(s, 1, Len(s) - 1))
    ELSE s

\* ------------------------------------------------------------------ formats
\* The format codes of the media's metadata: a video-only format, an
\* audio-only format and a combined one.
Code137 == <<"1", "3", "7">>
Code140 == <<"1", "4", "0">>
Code22 == <<"2", "2">>

\* media.get_format_by_code(code): the descriptor of a format of the media's
\* metadata.
get_format_by_code(code) ==
    IF code = Code137
    THEN [format |-> "1080p", vcodec |-> {"avc1"}, acodec |-> None, width |-> 1920,
          height |-> 1080, fps |-> 60, is_hdr |-> TRUE]
    ELSE IF code = Code140
    THEN [format |-> "0p", vcodec |-> None, acodec |-> {"mp4a"}, width |-> 0,
          height |-> 0, fps |-> 0, is_hdr |-> FALSE]
    ELSE [format |-> "720p", vcodec |-> {"vp9"}, acodec |-> {"opus"}, width |-> 1280,
          height |-> 720, fps |-> 30, is_hdr |-> FALSE]

\* What media.download_media() returns: (format_str, container).
DownloaderResults ==
    {[format_str |-> Code137 \o <<"+">> \o Code140, container |-> "mkv"],
     [format_str |-> Code22, container |-> "mp4"],
     [format_str |-> Code140, container |-> "m4a"]}

\* The download the stages of Spec get.
CombinedDownload == [format_str |-> Code22, container |-> "mp4"]

\* A replacement for record_download that reads the audio codec of a split
\* code from the video format.
record_download_audio_of_video(m, dl, t) ==
    LET parts == split(dl.format_str, "+")
        f == get_format_by_code(parts[1])
    IN  [m EXCEPT !.media_file = TRUE, !.downloaded = TRUE, !.download_date = {t},
                  !.downloaded_filesize = {1}, !.downloaded_container = {dl.container},
                  !.downloaded_format = {f.format}, !.downloaded_height = {f.height},
                  !.downloaded_width = {f.width}, !.downloaded_audio_codec = f.acodec,
                  !.downloaded_video_codec = f.vcodec, !.downloaded_fps = {f.fps},
                  !.downloaded_hdr = {f.is_hdr}]

\* download_media, once the file is on disk: the media as it is saved. A
\* format_str with a "+" names the video and the audio format; one without
\* names a combined format or, with no video codec, an audio format.
record_download(m, dl, t) ==
    LET base == [m EXCEPT !.media_file = TRUE, !.downloaded = TRUE,
                          !.download_date = {t}, !.downloaded_filesize = {1},
                          !.downloaded_container = {dl.container}]
    IN  IF Contains(dl.format_str, "+")
        THEN LET parts == split(dl.format_str, "+")
                 vformat == get_format_by_code(parts[1])
                 aformat == get_format_by_code(parts[2])
             IN  [base EXCEPT !.downloaded_format = {vformat.format},
                              !.downloaded_height = {vformat.height},
                              !.downloaded_width = {vformat.width},
                              !.downloaded_audio_codec = aformat.acodec,
                              !.downloaded_video_codec = vformat.vcodec,
                              !.downloaded_fps = {vformat.fps},
                              !.downloaded_hdr = {vformat.is_hdr}]
        ELSE LET cformat == get_format_by_code(dl.format_str)
             IN  IF cformat.vcodec # None
                 THEN [base EXCEPT !.downloaded_audio_codec = cformat.acodec,
                                   !.downloaded_format = {cformat.format},
                                   !.downloaded_height = {cformat.height},
                                   !.downloaded_width = {cformat.width},
                                   !.downloaded_video_codec = cformat.vcodec,
                                   !.downloaded_fps = {cformat.fps},
                                   !.downloaded_hdr = {cformat.is_hdr}]
                 ELSE [base EXCEPT !.downloaded_audio_codec = cformat.acodec,
                                   !.downloaded_format = {"audio"}]

\* ------------------------------------------------------------------- workers
\* No helper was called.
NoCall == [fn |-> "", input |-> <<>>, result |-> <<>>]

\* A Source row as the add-source form creates it.
DefaultSource ==
    [exists |-> TRUE, has_failed |-> FALSE, last_crawl |-> None, delete_removed_media |-> FALSE,
     delete_old_media |-> FALSE, days_to_keep |-> 1, download_media |-> TRUE,
     download_cap_date |-> None]

\* A worker that runs nothing. ext is history: the external functions the
\* stage has called (enumeration, metadata fetch, downloader, image fetch,
\* media server update); got is history: what the downloader returned and
\* whether it left the file.
Idle ==
    [pc |-> "idle", task |-> "", src |-> "", videos |-> {}, todo |-> {},
     media |-> NoMedia, err |-> "", collided |-> {}, purged |-> {},
     removed |-> {}, snap |-> {}, pk |-> 0, ext |-> {}, got |-> {}]

\* A replacement for OnIntegrityError that lets the error end the task.
OnIntegrityError_raise(w) ==
    [w EXCEPT !.pc = "failed", !.err = "IntegrityError", !.media = NoMedia]

\* index_source_task's except IntegrityError branch: the error is logged and
\* the loop goes on with the next video.
OnIntegrityError(w) ==
    [w EXCEPT !.pc = "loop", !.collided = @ \cup {w.media.key}, !.media = NoMedia]

\* ---------------------------------------------------------- store actions
StoreInit ==
    /\ pending = {}
    /\ locked = [w \in Workers |-> NoTask]
    /\ completed = {}
    /\ nextSerial = 1
    /\ mediaservers \in {{"ms1"}, MediaServerIds}
    /\ cancelled = {}
    /\ lastOp = [op |-> "init", task_name |-> "", arg |-> "", flag |-> FALSE]
    /\ source = [s \in SourceIds |-> DefaultSource]
    /\ media = {}
    /\ nextPk = 1
    /\ upstream = [s \in SourceIds |-> {}]
    /\ now = 0
    /\ wk = [w \in Workers |-> Idle]
    /\ lastIndexed = [s \in SourceIds |-> {}]
    /\ call = NoCall

\* The CompletedTask row of a task given up after its last attempt, with the
\* attempts it had and its error text.
CompletedTask(t, last_error, t_now) ==
    [serial |-> t.serial, failed |-> TRUE, run_at |-> t_now,
     attempts |-> t.attempts, last_error |-> last_error]

\* The lane a trigger schedules a task in: the owning source's id.
LaneOf(task_name, arg) ==
    IF task_name = INDEX THEN arg ELSE StoreMediaSource(arg)

\* An external trigger (a catalog signal, the periodic clock) schedules an
\* index or a download task in its source's lane.
Enqueue(task_name, arg, replace_existing) ==
    /\ nextSerial <= MaxSerial
    /\ pending' = enqueue(pending, InFlight, nextSerial, task_name, arg,
                          LaneOf(task_name, arg), replace_existing)
    /\ nextSerial' = SerialAfter(pending, pending', nextSerial)
    /\ lastOp' = [op |-> "enqueue", task_name |-> task_name, arg |-> arg,
                  flag |-> replace_existing]
    /\ UNCHANGED <<locked, completed, mediaservers, cancelled, pipeVars>>

\* A worker takes one pending task.
DequeueReady(w) ==
    /\ locked[w] = NoTask
    /\ \E t \in pending :
        /\ pending' = dequeue_ready(pending, t)
        /\ locked' = [locked EXCEPT ![w] = t]
        /\ lastOp' = [op |-> "dequeue", task_name |-> "", arg |-> "", flag |-> FALSE]
    /\ UNCHANGED <<completed, nextSerial, mediaservers, cancelled, pipeVars>>

\* The task a worker runs ends: complete(task, error). A download_media task
\* that downloaded its file has scheduled the media server rescans before.
Complete(w, failed, downloaded) ==
    /\ locked[w] # NoTask
    /\ downloaded => (locked[w].task_name = DOWNLOAD /\ ~failed)
    /\ LET r == IF downloaded
                THEN ScheduleRescans(pending, InFlight, nextSerial, mediaservers,
                                     StoreMediaSource(locked[w].arg))
                ELSE [pend |-> pending, serial |-> nextSerial]
       IN  /\ r.serial <= MaxSerial + 1
           /\ pending' = r.pend
           /\ nextSerial' = r.serial
    /\ lastOp' = [op |-> IF downloaded THEN "rescans" ELSE "complete",
                  task_name |-> "", arg |-> "", flag |-> FALSE]
    /\ completed' = completed \cup {[serial |-> locked[w].serial, failed |-> failed,
                                      run_at |-> now]}
    /\ locked' = [locked EXCEPT ![w] = NoTask]
    /\ UNCHANGED <<mediaservers, cancelled, pipeVars>>

\* cancel_lane_tasks(kind, lane)
CancelLaneTasks(task_name, source_id) ==
    /\ pending' = delete_task_by_source(pending, task_name, source_id)
    /\ cancelled' = cancelled \cup
           {t.serial : t \in {x \in pending : x.task_name = task_name
                                              /\ x.queue = source_id}}
    /\ lastOp' = [op |-> "cancel", task_name |-> task_name, arg |-> source_id,
                  flag |-> FALSE]
    /\ UNCHANGED <<locked, completed, nextSerial, mediaservers, pipeVars>>

StoreNext ==
    \/ \E n \in {INDEX, DOWNLOAD} : \E a \in ArgsOf(n) : \E r \in BOOLEAN :
         Enqueue(n, a, r)
    \/ \E w \in Workers : DequeueReady(w)
    \/ \E w \in Workers : \E f \in BOOLEAN : \E d \in BOOLEAN : Complete(w, f, d)
    \/ \E n \in TaskNames : \E q \in SourceIds : CancelLaneTasks(n, q)

StoreSpec == StoreInit /\ [][StoreNext]_vars

\* ------------------------------------------------------ failed attempts
\* The attempts the store gives a task before it gives it up.
MaxAttempts == 2

\* The error a stage of each kind fails with.
ErrorOf(task_name) ==
    IF task_name = DOWNLOAD THEN "DownloadFailedException"
    ELSE IF task_name = INDEX THEN "NoMediaException"
    ELSE "MediaServerError"

\* A replacement for reschedule that never gives a task up.
reschedule_forever(t, max_attempts) ==
    [give_up |-> FALSE, row |-> [t EXCEPT !.attempts = 0]]

\* The store's handling of a failed attempt: the attempt is counted, and the
\* task is given up when it has had max_attempts of them.
reschedule(t, max_attempts) ==
    LET t2 == [t EXCEPT !.attempts = @ + 1]
    IN  [give_up |-> t2.attempts >= max_attempts, row |-> t2]

\* The stage a worker runs raises: the task goes back to the pending tasks, or
\* into the completed tasks as failed, with the error.
Reschedule(w) ==
    /\ locked[w] # NoTask
    /\ LET r == reschedule(locked[w], MaxAttempts)
       IN  IF r.give_up
           THEN /\ completed' = completed \cup
                      {CompletedTask(r.row, ErrorOf(r.row.task_name), now)}
                /\ UNCHANGED pending
           ELSE /\ pending' = pending \cup {r.row}
                /\ UNCHANGED completed
    /\ locked' = [locked EXCEPT ![w] = NoTask]
    /\ lastOp' = [op |-> "reschedule", task_name |-> locked[w].task_name,
                  arg |-> locked[w].arg, flag |-> FALSE]
    /\ UNCHANGED <<nextSerial, mediaservers, cancelled, pipeVars>>

\* The tasks the triggers schedule while stages fail, and how many of them.
MaxRetrySerial == 2
RetryTriggers == {<<INDEX, "s1">>, <<DOWNLOAD, "m1">>}

\* One media server.
RetryInit == StoreInit /\ mediaservers = {"ms1"}

\* The store with stages that end or raise, and no failed task completed
\* before its attempts are used up.
RetryNext ==
    \/ \E t \in RetryTriggers : \E r \in BOOLEAN :
         nextSerial <= MaxRetrySerial /\ Enqueue(t[1], t[2], r)
    \/ \E w \in Workers : DequeueReady(w)
    \/ \E w \in Workers : \E d \in BOOLEAN : Complete(w, FALSE, d)
    \/ \E w \in Workers : Reschedule(w)
    \/ \E n \in {INDEX, DOWNLOAD} : CancelLaneTasks(n, "s1")

\* The workers keep taking tasks and the stages they run keep ending.
RetryFairness ==
    /\ WF_vars(\E w \in Workers : DequeueReady(w))
    /\ \A w \in Workers :
         WF_vars((\E d \in BOOLEAN : Complete(w, FALSE, d)) \/ Reschedule(w))

RetrySpec == RetryInit /\ [][RetryNext]_vars /\ RetryFairness

\* ------------------------------------------------------- pipeline stages
\* The sources whose index task runs; the other source keeps the media it has.
IndexedSources == {"s1"}

\* The workers that run stages in Spec.
StageWorkers == {"w1"}

\* The policies an indexed source is configured with: a failed source that
\* deletes removed media and expires media after a day, one that keeps removed
\* media and has days_to_keep = 0, and one that never expires media.
SourceConfigs ==
    {[DefaultSource EXCEPT !.has_failed = TRUE, !.delete_removed_media = TRUE,
                           !.delete_old_media = TRUE, !.days_to_keep = 1],
     [DefaultSource EXCEPT !.delete_removed_media = FALSE,
                           !.delete_old_media = TRUE, !.days_to_keep = 0],
     [DefaultSource EXCEPT !.delete_removed_media = TRUE,
                           !.delete_old_media = FALSE, !.days_to_keep = 1]}

\* The catalog at the start: source s1 with any policy, never indexed, its
\* remote list holding the given items; source s2, which expires its media
\* after a day, with one media (key "b") downloaded on day 0.
PipeInit(videos) ==
    /\ pending = {}
    /\ locked = [w \in Workers |-> NoTask]
    /\ completed = {}
    /\ nextSerial = 1
    /\ mediaservers = {}
    /\ cancelled = {}
    /\ lastOp = [op |-> "init", task_name |-> "", arg |-> "", flag |-> FALSE]
    /\ \E c \in SourceConfigs :
         source = [s \in SourceIds |->
                     IF s \in IndexedSources THEN c
                     ELSE [DefaultSource EXCEPT !.delete_old_media = TRUE,
                                                !.last_crawl = {0}]]
    /\ media = {[NewMedia(1, "s2", "b") EXCEPT !.downloaded = TRUE,
                                              !.media_file = TRUE,
                                              !.download_date = {0}]}
    /\ nextPk = 2
    /\ upstream = [s \in SourceIds |-> IF s \in IndexedSources THEN videos ELSE {}]
    /\ now = 0
    /\ wk = [w \in Workers |-> Idle]
    /\ lastIndexed = [s \in SourceIds |-> {}]
    /\ call = NoCall

Init == PipeInit(Videos)

storeRest == <<locked, completed, mediaservers, cancelled, lastOp, call>>

\* A replacement for StartIndex that leaves has_failed as it finds it.
StartIndex_keeping_has_failed(w, s, snapshot) ==
    /\ wk[w].pc = "idle"
    /\ wk' = [wk EXCEPT ![w] =
                [Idle EXCEPT !.pc = IF source[s].exists THEN "index_media" ELSE "done",
                             !.task = INDEX, !.src = s]]
    /\ UNCHANGED <<source, media, nextPk, upstream, now, lastIndexed, pending,
                   nextSerial, storeRest>>

\* index_source_task, up to the call of the enumeration: the source is read
\* (the task returns when the row is gone), has_failed is reset and the source
\* saved. With snapshot, the catalog the run
\* starts from is recorded (history).
StartIndex(w, s, snapshot) ==
    /\ wk[w].pc = "idle"
    /\ IF source[s].exists
       THEN /\ source' = [source EXCEPT ![s].has_failed = FALSE]
            /\ wk' = [wk EXCEPT ![w] =
                        [Idle EXCEPT !.pc = "index_media", !.task = INDEX, !.src = s,
                                     !.snap = IF snapshot
                                              THEN {[media |-> media,
                                                     source |-> source[s],
                                                     videos |-> lastIndexed[s]]}
                                              ELSE {}]]
       ELSE /\ UNCHANGED source
            /\ wk' = [wk EXCEPT ![w] =
                        [Idle EXCEPT !.pc = "done", !.task = INDEX, !.src = s]]
    /\ UNCHANGED <<media, nextPk, upstream, now, lastIndexed, pending, nextSerial,
                   storeRest>>

\* videos = source.index_media(): NoMediaException when nothing came back, else
\* last_crawl is set and the source saved.
IndexMedia(w) ==
    /\ wk[w].pc = "index_media"
    /\ LET s == wk[w].src
           videos == upstream[s]
       IN  IF videos = {}
           THEN /\ wk' = [wk EXCEPT ![w].pc = "failed",
                                    ![w].err = "NoMediaException",
                                    ![w].ext = @ \cup {"index_media"}]
                /\ UNCHANGED source
           ELSE /\ source' = [source EXCEPT ![s].has_failed = FALSE,
                                            ![s].last_crawl = {now}]
                /\ wk' = [wk EXCEPT ![w].pc = "loop", ![w].videos = videos,
                                    ![w].todo = videos,
                                    ![w].ext = @ \cup {"index_media"}]
    /\ UNCHANGED <<media, nextPk, upstream, now, lastIndexed, pending, nextSerial,
                   storeRest>>

\* The loop's lookup for one video: a video without a key is passed over, else
\* the Media row of (key, source) is read, or a new instance made.
IndexGet(w, v) ==
    /\ wk[w].pc = "loop"
    /\ v \in wk[w].todo
    /\ LET s == wk[w].src
           found == {r \in media : r.key = v /\ r.source = s}
       IN  IF v = NoKey
           THEN /\ wk' = [wk EXCEPT ![w].todo = @ \ {v}]
                /\ UNCHANGED nextPk
           ELSE IF found # {}
           THEN /\ wk' = [wk EXCEPT ![w].todo = @ \ {v}, ![w].pc = "save",
                                    ![w].media = CHOOSE r \in found : TRUE]
                /\ UNCHANGED nextPk
           ELSE /\ nextPk <= MaxPk
                /\ wk' = [wk EXCEPT ![w].todo = @ \ {v}, ![w].pc = "save",
                                    ![w].media = NewMedia(nextPk, s, v)]
                /\ nextPk' = nextPk + 1
    /\ UNCHANGED <<source, media, upstream, now, lastIndexed, pending, nextSerial,
                   storeRest>>

\* media.source = source; media.save(), an IntegrityError caught.
IndexSave(w) ==
    /\ wk[w].pc = "save"
    /\ LET r == save(media, [wk[w].media EXCEPT !.source = wk[w].src])
       IN  IF r.ok
           THEN /\ media' = r.rows
                /\ wk' = [wk EXCEPT ![w].pc = "loop", ![w].media = NoMedia]
           ELSE /\ wk' = [wk EXCEPT ![w] = OnIntegrityError(wk[w])]
                /\ UNCHANGED media
    /\ UNCHANGED <<source, nextPk, upstream, now, lastIndexed, pending, nextSerial,
                   storeRest>>

\* After the loop: cleanup_completed_tasks().
CleanupCompleted(w) ==
    /\ wk[w].pc = "loop"
    /\ wk[w].todo = {}
    /\ completed' = cleanup_completed_tasks(completed, now)
    /\ wk' = [wk EXCEPT ![w].pc = "cleanup_old"]
    /\ UNCHANGED <<pipeVarsButWk, pending, nextSerial, locked, mediaservers,
                   cancelled, lastOp>>

\* cleanup_old_media(). media.delete() removes the row's files as well, and an
\* error there (raises) leaves the sweep after some of its deletions (partial).
CleanupOld(w, raises, partial) ==
    /\ wk[w].pc = "cleanup_old"
    /\ LET targets == cleanup_old_media(media, source, now)
       IN  IF raises
           THEN /\ partial \subseteq targets /\ partial # targets
                /\ media' = media \ partial
                /\ wk' = [wk EXCEPT ![w].pc = "failed", ![w].err = "OSError",
                                    ![w].purged = {m.pk : m \in partial}]
           ELSE /\ partial = targets
                /\ media' = media \ targets
                /\ wk' = [wk EXCEPT ![w].pc = "cleanup_removed",
                                    ![w].purged = {m.pk : m \in targets}]
    /\ UNCHANGED <<source, nextPk, upstream, now, lastIndexed, pending, nextSerial,
                   storeRest>>

\* if source.delete_removed_media: cleanup_removed_media(source, videos)
CleanupRemoved(w, raises, partial) ==
    /\ wk[w].pc = "cleanup_removed"
    /\ LET s == wk[w].src
           targets == IF source[s].delete_removed_media
                      THEN cleanup_removed_media(media, s, wk[w].videos)
                      ELSE {}
       IN  IF raises
           THEN /\ partial \subseteq targets /\ partial # targets
                /\ media' = media \ partial
                /\ wk' = [wk EXCEPT ![w].pc = "failed", ![w].err = "OSError",
                                    ![w].removed = {m.pk : m \in partial}]
           ELSE /\ partial = targets
                /\ media' = media \ targets
                /\ wk' = [wk EXCEPT ![w].pc = "done",
                                    ![w].removed = {m.pk : m \in targets}]
    /\ UNCHANGED <<source, nextPk, upstream, now, lastIndexed, pending, nextSerial,
                   storeRest>>

\* A replacement for download_media_refusal that lets a media published on
\* the cap date through.
download_media_refusal_cap_exclusive(m, src) ==
    IF m.skip THEN "skip"
    ELSE IF m.downloaded /\ m.media_file THEN "downloaded"
    ELSE IF ~src.download_media THEN "source"
    ELSE IF \E c \in src.download_cap_date : \E p \in m.published : p < c THEN "cap"
    ELSE ""

\* download_media's checks before the download: the reason the task returns
\* without downloading, or "" when it goes on.
download_media_refusal(m, src) ==
    IF m.skip THEN "skip"
    ELSE IF m.downloaded /\ m.media_file THEN "downloaded"
    ELSE IF ~src.download_media THEN "source"
    ELSE IF \E c \in src.download_cap_date : \E p \in m.published : p <= c THEN "cap"
    ELSE ""

\* A replacement for after_download that never looks for the file.
after_download_unchecked(m, file_exists, dl, t) == record_download(m, dl, t)

\* download_media after the downloader returned: the media row, saved with the
\* download recorded when the file is on disk, as it was when it is not.
after_download(m, file_exists, dl, t) ==
    IF file_exists THEN record_download(m, dl, t) ELSE m

\* download_media(media_id). file_exists: whether the downloader left the
\* expected file on disk; dl: what the downloader returned.
DownloadMedia(w, pk, file_exists, dl) ==
    /\ wk[w].pc = "idle"
    /\ LET rows == {m \in media : m.pk = pk}
           m == CHOOSE r \in rows : TRUE
           go == rows # {} /\ download_media_refusal(m, source[m.source]) = ""
           r == IF go /\ file_exists
                THEN ScheduleRescans(pending, InFlight, nextSerial, mediaservers,
                                     m.source)
                ELSE [pend |-> pending, serial |-> nextSerial]
       IN  /\ r.serial <= MaxSerial + 1
           /\ pending' = r.pend
           /\ nextSerial' = r.serial
           /\ media' = IF go
                       THEN save(media, after_download(m, file_exists, dl, now)).rows
                       ELSE media
           /\ wk' = [wk EXCEPT ![w] =
                       [Idle EXCEPT !.pc = IF go /\ ~file_exists THEN "failed"
                                           ELSE "done",
                                    !.err = IF go /\ ~file_exists
                                            THEN "DownloadFailedException" ELSE "",
                                    !.task = DOWNLOAD,
                                    !.pk = pk,
                                    !.ext = IF go THEN {"download_media"} ELSE {},
                                    !.got = IF go
                                            THEN {[file_exists |-> file_exists,
                                                   format_str |-> dl.format_str,
                                                   container |-> dl.container]}
                                            ELSE {}]]
    /\ UNCHANGED <<source, nextPk, upstream, now, lastIndexed, storeRest>>

\* The task function returned or raised: the worker is free again. A run that
\* recorded its start records the items it indexed (history).
Finish(w) ==
    /\ wk[w].pc \in {"done", "failed"}
    /\ lastIndexed' = IF wk[w].task = INDEX /\ wk[w].pc = "done" /\ wk[w].snap # {}
                      THEN [lastIndexed EXCEPT ![wk[w].src] = {wk[w].videos}]
                      ELSE lastIndexed
    /\ wk' = [wk EXCEPT ![w] = Idle]
    /\ UNCHANGED <<source, media, nextPk, upstream, now, pending, nextSerial,
                   storeRest>>

\* A day passes.
Tick ==
    /\ now < MaxTime
    /\ now' = now + 1
    /\ UNCHANGED <<source, media, nextPk, upstream, wk, lastIndexed, pending,
                   nextSerial, storeRest>>

\* An item disappears from the remote source.
UpstreamRemove(s, v) ==
    /\ v \in upstream[s]
    /\ upstream' = [upstream EXCEPT ![s] = @ \ {v}]
    /\ UNCHANGED <<source, media, nextPk, now, wk, lastIndexed, pending,
                   nextSerial, storeRest>>

Next ==
    \/ \E w \in StageWorkers : \E s \in IndexedSources : StartIndex(w, s, FALSE)
    \/ \E w \in StageWorkers : IndexMedia(w)
    \/ \E w \in StageWorkers : \E v \in Videos : IndexGet(w, v)
    \/ \E w \in StageWorkers : IndexSave(w)
    \/ \E w \in StageWorkers : CleanupCompleted(w)
    \/ \E w \in StageWorkers : \E raises \in BOOLEAN : \E partial \in SUBSET media :
         CleanupOld(w, raises, partial)
    \/ \E w \in StageWorkers : \E raises \in BOOLEAN : \E partial \in SUBSET media :
         CleanupRemoved(w, raises, partial)
    \/ \E w \in StageWorkers : \E pk \in 1..MaxPk : \E f \in BOOLEAN :
         DownloadMedia(w, pk, f, CombinedDownload)
    \/ \E w \in StageWorkers : Finish(w)
    \/ Tick
    \/ \E s \in IndexedSources : \E v \in Videos : UpstreamRemove(s, v)

Spec == Init /\ [][Next]_vars

\* ------------------------------------------------- repeated index runs
\* One worker indexes a source whose remote list stays as it is (one video and
\* an item without a key); media are downloaded and days pass between and
\* during the runs, and no file removal fails. Every run records the catalog
\* it starts from.
SoloVideos == {"a", NoKey}

SoloInit == PipeInit(SoloVideos)

SoloNext ==
    \/ \E w \in StageWorkers : \E s \in IndexedSources : StartIndex(w, s, TRUE)
    \/ \E w \in StageWorkers : IndexMedia(w)
    \/ \E w \in StageWorkers : \E v \in Videos : IndexGet(w, v)
    \/ \E w \in StageWorkers : IndexSave(w)
    \/ \E w \in StageWorkers : CleanupCompleted(w)
    \/ \E w \in StageWorkers : \E partial \in SUBSET media :
         CleanupOld(w, FALSE, partial)
    \/ \E w \in StageWorkers : \E partial \in SUBSET media :
         CleanupRemoved(w, FALSE, partial)
    \/ \E w \in StageWorkers : \E pk \in 1..MaxPk : \E f \in BOOLEAN :
         DownloadMedia(w, pk, f, CombinedDownload)
    \/ \E w \in StageWorkers : Finish(w)
    \/ Tick

SoloSpec == SoloInit /\ [][SoloNext]_vars

\* ------------------------------------------------ concurrent index runs
\* Every worker runs index_source_task, for the same source, at the same time.
RaceNext ==
    \/ \E w \in Workers : \E s \in IndexedSources : StartIndex(w, s, FALSE)
    \/ \E w \in Workers : IndexMedia(w)
    \/ \E w \in Workers : \E v \in Videos : IndexGet(w, v)
    \/ \E w \in Workers : IndexSave(w)
    \/ \E w \in Workers : CleanupCompleted(w)
    \/ \E w \in Workers : \E raises \in BOOLEAN : \E partial \in SUBSET media :
         CleanupOld(w, raises, partial)
    \/ \E w \in Workers : \E raises \in BOOLEAN : \E partial \in SUBSET media :
         CleanupRemoved(w, raises, partial)
    \/ \E w \in Workers : Finish(w)

RaceSpec == Init /\ [][RaceNext]_vars


\* ------------------------------------------------ per-media stages
\* download_media_metadata's skip decisions: the value of media.skip it saves.
\* No upload date; published before the cap date; or, with a retention
\* window, no published date or one before now - days_to_keep.
metadata_skip(m, src, upload_date, t) ==
    LET published == IF upload_date # None THEN upload_date ELSE m.published
    IN  \/ m.skip
        \/ upload_date = None
        \/ \E p \in published : \E c \in src.download_cap_date : p < c
        \/ /\ src.delete_old_media /\ src.days_to_keep > 0
           /\ (published = None \/ \E p \in published : p < t - src.days_to_keep)

\* download_media_metadata(media_id). upload_date: the upload date of the
\* fetched metadata, if it has one; has_format: whether get_format_str() finds
\* a format to download.
FetchMetadata(w, pk, upload_date, has_format) ==
    /\ wk[w].pc = "idle"
    /\ LET rows == {m \in media : m.pk = pk}
           m == CHOOSE r \in rows : TRUE
           go == rows # {} /\ ~m.manual_skip
           src == source[m.source]
           skip == metadata_skip(m, src, upload_date, now)
           m2 == [m EXCEPT !.metadata = TRUE,
                           !.published = IF upload_date # None THEN upload_date
                                         ELSE @,
                           !.skip = skip,
                           !.can_download = IF skip THEN @ ELSE has_format]
       IN  /\ media' = IF go THEN save(media, m2).rows ELSE media
           /\ wk' = [wk EXCEPT ![w] =
                       [Idle EXCEPT !.pc = "done", !.task = METADATA, !.pk = pk,
                                    !.ext = IF go THEN {"index_metadata"} ELSE {}]]
    /\ UNCHANGED <<source, nextPk, upstream, now, lastIndexed, pending, nextSerial,
                   storeRest>>

\* download_media_thumbnail(media_id, url)
DownloadMediaThumbnail(w, pk) ==
    /\ wk[w].pc = "idle"
    /\ LET rows == {m \in media : m.pk = pk}
           m == CHOOSE r \in rows : TRUE
       IN  /\ media' = IF rows # {} THEN save(media, [m EXCEPT !.thumb = TRUE]).rows
                       ELSE media
           /\ wk' = [wk EXCEPT ![w] =
                       [Idle EXCEPT !.pc = "done", !.task = THUMBNAIL, !.pk = pk,
                                    !.ext = IF rows # {} THEN {"get_remote_image"}
                                            ELSE {}]]
    /\ UNCHANGED <<source, nextPk, upstream, now, lastIndexed, pending, nextSerial,
                   storeRest>>

\* The media rows a stage can find: one media of source s1, in any state of
\* its flags, published on any day or with no known date.
StageMedia ==
    {[NewMedia(1, "s1", "a") EXCEPT !.skip = sk, !.manual_skip = ms,
                                    !.can_download = cd, !.downloaded = d[1],
                                    !.media_file = d[2],
                                    !.download_date = IF d[1] THEN {0} ELSE None,
                                    !.published = p] :
        sk \in BOOLEAN, ms \in BOOLEAN, cd \in BOOLEAN,
        d \in {<<FALSE, FALSE>>, <<TRUE, TRUE>>, <<TRUE, FALSE>>},
        p \in {None} \cup {{t} : t \in 0..MaxTime}}

\* The sources they belong to: downloads wanted or not, with or without a cap
\* date, with or without a retention window.
StageSources ==
    {[DefaultSource EXCEPT !.download_media = dm, !.download_cap_date = cap,
                           !.delete_old_media = old] :
        dm \in BOOLEAN, cap \in {None, {1}}, old \in BOOLEAN}

StageInit ==
    /\ pending = {}
    /\ locked = [w \in Workers |-> NoTask]
    /\ completed = {}
    /\ nextSerial = 1
    /\ mediaservers = {"ms1"}
    /\ cancelled = {}
    /\ lastOp = [op |-> "init", task_name |-> "", arg |-> "", flag |-> FALSE]
    /\ \E c \in StageSources :
         source = [s \in SourceIds |-> IF s = "s1" THEN c ELSE DefaultSource]
    /\ \E m \in StageMedia : media = {m}
    /\ nextPk = 2
    /\ upstream = [s \in SourceIds |-> {}]
    /\ now \in 0..MaxTime
    /\ wk = [w \in Workers |-> Idle]
    /\ lastIndexed = [s \in SourceIds |-> {}]
    /\ call = NoCall

\* Stages run for the media, and for a media that does not exist.
StageNext ==
    \/ \E w \in StageWorkers : \E pk \in 1..2 : \E u \in {None} \cup {{t} : t \in 0..MaxTime} :
         \E f \in BOOLEAN : FetchMetadata(w, pk, u, f)
    \/ \E w \in StageWorkers : \E pk \in 1..2 : \E f \in BOOLEAN :
         \E dl \in DownloaderResults : DownloadMedia(w, pk, f, dl)
    \/ \E w \in StageWorkers : Finish(w)

StageSpec == StageInit /\ [][StageNext]_vars

\* ------------------------------------------------------ deleted entities
\* A replacement for rescan_media_server that never looks the server up.
rescan_media_server_unchecked(servers, mediaserver_id) == {"update"}

\* rescan_media_server(mediaserver_id): the external calls it makes, with the
\* MediaServer rows there are.
rescan_media_server(servers, mediaserver_id) ==
    IF mediaserver_id \in servers THEN {"update"} ELSE {}

\* A worker runs rescan_media_server(ms); mediaserver.update() may raise.
RescanMediaServer(w, ms, raises) ==
    /\ wk[w].pc = "idle"
    /\ LET ext == rescan_media_server(mediaservers, ms)
           failed == ext # {} /\ raises
       IN  wk' = [wk EXCEPT ![w] =
                    [Idle EXCEPT !.pc = IF failed THEN "failed" ELSE "done",
                                 !.err = IF failed THEN "MediaServerError" ELSE "",
                                 !.task = RESCAN, !.src = ms, !.ext = ext]]
    /\ UNCHANGED <<source, media, nextPk, upstream, now, lastIndexed, pending,
                   nextSerial, storeRest>>

\* A source is deleted while no index task runs on it; its media go with it.
DeleteSource(s) ==
    /\ source[s].exists
    /\ \A w \in Workers : ~(wk[w].task = INDEX /\ wk[w].src = s)
    /\ source' = [source EXCEPT ![s].exists = FALSE]
    /\ media' = {m \in media : m.source # s}
    /\ UNCHANGED <<nextPk, upstream, now, wk, lastIndexed, pending, nextSerial,
                   storeRest>>

\* A media is deleted.
DeleteMedia(pk) ==
    /\ \E m \in media : m.pk = pk
    /\ media' = {m \in media : m.pk # pk}
    /\ UNCHANGED <<source, nextPk, upstream, now, wk, lastIndexed, pending,
                   nextSerial, storeRest>>

\* A media server is deleted.
DeleteMediaServer(ms) ==
    /\ ms \in mediaservers
    /\ mediaservers' = mediaservers \ {ms}
    /\ UNCHANGED <<source, media, nextPk, upstream, now, wk, lastIndexed, pending,
                   nextSerial, locked, completed, cancelled, lastOp, call>>

\* Source s1 with any policy and an empty remote list, its media ready to
\* download, and one media server.
GoneInit ==
    /\ pending = {}
    /\ locked = [w \in Workers |-> NoTask]
    /\ completed = {}
    /\ nextSerial = 1
    /\ mediaservers = {"ms1"}
    /\ cancelled = {}
    /\ lastOp = [op |-> "init", task_name |-> "", arg |-> "", flag |-> FALSE]
    /\ \E c \in StageSources :
         source = [s \in SourceIds |-> IF s = "s1" THEN c ELSE DefaultSource]
    /\ media = {[NewMedia(1, "s1", "a") EXCEPT !.can_download = TRUE,
                                              !.published = {0}]}
    /\ nextPk = 2
    /\ upstream = [s \in SourceIds |-> {}]
    /\ now = 0
    /\ wk = [w \in Workers |-> Idle]
    /\ lastIndexed = [s \in SourceIds |-> {}]
    /\ call = NoCall

\* The stages run on both workers while the rows they name are deleted.
GoneNext ==
    \/ \E w \in Workers : \E s \in IndexedSources : StartIndex(w, s, FALSE)
    \/ \E w \in Workers : IndexMedia(w)
    \/ \E w \in Workers : \E f \in BOOLEAN : FetchMetadata(w, 1, {0}, f)
    \/ \E w \in Workers : DownloadMediaThumbnail(w, 1)
    \/ \E w \in Workers : \E f \in BOOLEAN : DownloadMedia(w, 1, f, CombinedDownload)
    \/ \E w \in Workers : \E r \in BOOLEAN : RescanMediaServer(w, "ms1", r)
    \/ \E w \in Workers : Finish(w)
    \/ \E s \in IndexedSources : DeleteSource(s)
    \/ DeleteMedia(1)
    \/ DeleteMediaServer("ms1")

GoneSpec == GoneInit /\ [][GoneNext]_vars

\* ------------------------------------------- stage runs one after another
\* The media of StageInit is on its source's remote list.
SeqInit ==
    /\ pending = {}
    /\ locked = [w \in Workers |-> NoTask]
    /\ completed = {}
    /\ nextSerial = 1
    /\ mediaservers = {"ms1"}
    /\ cancelled = {}
    /\ lastOp = [op |-> "init", task_name |-> "", arg |-> "", flag |-> FALSE]
    /\ \E c \in StageSources :
         source = [s \in SourceIds |-> IF s = "s1" THEN c ELSE DefaultSource]
    /\ \E m \in StageMedia : media = {m}
    /\ nextPk = 2
    /\ upstream = [s \in SourceIds |-> IF s = "s1" THEN {"a"} ELSE {}]
    /\ now \in 0..MaxTime
    /\ wk = [w \in Workers |-> Idle]
    /\ lastIndexed = [s \in SourceIds |-> {}]
    /\ call = NoCall

\* One worker runs the four stages in any order, each to its end.
SeqNext ==
    \/ \E w \in StageWorkers : \E s \in IndexedSources : StartIndex(w, s, FALSE)
    \/ \E w \in StageWorkers : IndexMedia(w)
    \/ \E w \in StageWorkers : \E v \in Videos : IndexGet(w, v)
    \/ \E w \in StageWorkers : IndexSave(w)
    \/ \E w \in StageWorkers : CleanupCompleted(w)
    \/ \E w \in StageWorkers : \E partial \in SUBSET media :
         CleanupOld(w, FALSE, partial)
    \/ \E w \in StageWorkers : \E partial \in SUBSET media :
         CleanupRemoved(w, FALSE, partial)
    \/ \E w \in StageWorkers : \E u \in {None} \cup {{t} : t \in 0..MaxTime} :
         \E f \in BOOLEAN : FetchMetadata(w, 1, u, f)
    \/ \E w \in StageWorkers : DownloadMediaThumbnail(w, 1)
    \/ \E w \in StageWorkers : \E f \in BOOLEAN : \E dl \in DownloaderResults :
         DownloadMedia(w, 1, f, dl)
    \/ \E w \in StageWorkers : Finish(w)

SeqSpec == SeqInit /\ [][SeqNext]_vars

\* ------------------------------------------------ stages that overlap
\* download_media_metadata up to media.index_metadata(): the row is read into
\* the task's instance.
MetadataGet(w, pk) ==
    /\ wk[w].pc = "idle"
    /\ LET rows == {m \in media : m.pk = pk}
           m == CHOOSE r \in rows : TRUE
           go == rows # {} /\ ~m.manual_skip
       IN  wk' = [wk EXCEPT ![w] =
                    [Idle EXCEPT !.pc = IF go THEN "index_metadata" ELSE "done",
                                 !.task = METADATA, !.pk = pk,
                                 !.media = IF go THEN m ELSE NoMedia]]
    /\ UNCHANGED <<source, media, nextPk, upstream, now, lastIndexed, pending,
                   nextSerial, storeRest>>

\* download_media_metadata from the return of media.index_metadata(): the
\* instance read at the start is changed and saved, every field of it.
MetadataSave(w, upload_date, has_format) ==
    /\ wk[w].pc = "index_metadata"
    /\ LET m == wk[w].media
           skip == metadata_skip(m, source[m.source], upload_date, now)
           m2 == [m EXCEPT !.metadata = TRUE,
                           !.published = IF upload_date # None THEN upload_date
                                         ELSE @,
                           !.skip = skip,
                           !.can_download = IF skip THEN @ ELSE has_format]
       IN  /\ media' = save(media, m2).rows
           /\ wk' = [wk EXCEPT ![w].pc = "done", ![w].media = NoMedia,
                               ![w].ext = {"index_metadata"}]
    /\ UNCHANGED <<source, nextPk, upstream, now, lastIndexed, pending, nextSerial,
                   storeRest>>

\* download_media up to media.download_media(): the row is read into the
\* task's instance and the checks are made.
DownloadGet(w, pk) ==
    /\ wk[w].pc = "idle"
    /\ LET rows == {m \in media : m.pk = pk}
           m == CHOOSE r \in rows : TRUE
           go == rows # {} /\ download_media_refusal(m, source[m.source]) = ""
       IN  wk' = [wk EXCEPT ![w] =
                    [Idle EXCEPT !.pc = IF go THEN "download_media" ELSE "done",
                                 !.task = DOWNLOAD, !.pk = pk,
                                 !.media = IF go THEN m ELSE NoMedia]]
    /\ UNCHANGED <<source, media, nextPk, upstream, now, lastIndexed, pending,
                   nextSerial, storeRest>>

\* download_media from the return of the downloader: with the file on disk the
\* instance read at the start is saved, every field of it, with the download
\* recorded, and the rescans are scheduled; without it the task raises.
DownloadSave(w, file_exists, dl) ==
    /\ wk[w].pc = "download_media"
    /\ LET m == wk[w].media
           r == IF file_exists
                THEN ScheduleRescans(pending, InFlight, nextSerial, mediaservers,
                                     m.source)
                ELSE [pend |-> pending, serial |-> nextSerial]
       IN  /\ r.serial <= MaxSerial + 1
           /\ pending' = r.pend
           /\ nextSerial' = r.serial
           /\ media' = IF file_exists
                       THEN save(media, after_download(m, file_exists, dl, now)).rows
                       ELSE media
           /\ wk' = [wk EXCEPT ![w].pc = IF file_exists THEN "done" ELSE "failed",
                               ![w].err = IF file_exists THEN ""
                                          ELSE "DownloadFailedException",
                               ![w].media = NoMedia,
                               ![w].ext = {"download_media"},
                               ![w].got = {[file_exists |-> file_exists,
                                            format_str |-> dl.format_str,
                                            container |-> dl.container]}]
    /\ UNCHANGED <<source, nextPk, upstream, now, lastIndexed, storeRest>>

\* Source s1 lists one video, whose media has its metadata and can be
\* downloaded; no media server.
OverlapInit ==
    /\ pending = {}
    /\ locked = [w \in Workers |-> NoTask]
    /\ completed = {}
    /\ nextSerial = 1
    /\ mediaservers = {}
    /\ cancelled = {}
    /\ lastOp = [op |-> "init", task_name |-> "", arg |-> "", flag |-> FALSE]
    /\ source = [s \in SourceIds |-> DefaultSource]
    /\ media = {[NewMedia(1, "s1", "a") EXCEPT !.can_download = TRUE,
                                              !.metadata = TRUE,
                                              !.published = {0}]}
    /\ nextPk = 2
    /\ upstream = [s \in SourceIds |-> IF s = "s1" THEN {"a"} ELSE {}]
    /\ now = 0
    /\ wk = [w \in Workers |-> Idle]
    /\ lastIndexed = [s \in SourceIds |-> {}]
    /\ call = NoCall

\* No worker runs a task of the kind: the store has no task in flight twice.
NotInFlight(task_name) == \A w \in Workers : wk[w].task # task_name

\* Two workers run the stages of the media and of its source at the same
\* time, each stage on one worker at most.
OverlapNext ==
    \/ \E w \in Workers : NotInFlight(METADATA) /\ MetadataGet(w, 1)
    \/ \E w \in Workers : \E u \in {None, {0}} : \E f \in BOOLEAN :
         MetadataSave(w, u, f)
    \/ \E w \in Workers : NotInFlight(DOWNLOAD) /\ DownloadGet(w, 1)
    \/ \E w \in Workers : \E f \in BOOLEAN : DownloadSave(w, f, CombinedDownload)
    \/ \E w \in Workers : NotInFlight(INDEX) /\ StartIndex(w, "s1", FALSE)
    \/ \E w \in Workers : IndexMedia(w)
    \/ \E w \in Workers : \E v \in Videos : IndexGet(w, v)
    \/ \E w \in Workers : IndexSave(w)
    \/ \E w \in Workers : CleanupCompleted(w)
    \/ \E w \in Workers : \E partial \in SUBSET media : CleanupOld(w, FALSE, partial)
    \/ \E w \in Workers : \E partial \in SUBSET media :
         CleanupRemoved(w, FALSE, partial)
    \/ \E w \in Workers : Finish(w)

OverlapSpec == OverlapInit /\ [][OverlapNext]_vars

\* ------------------------------------------------- task-list helpers
\* A JSON value: a number, null, a str (its characters), a list (its items) or
\* a dict (its keys, as str values).
JNum == [t |-> "num", items |-> <<>>, s |-> <<>>]
JNull == [t |-> "null", items |-> <<>>, s |-> <<>>]
JStr(chars) == [t |-> "str", items |-> <<>>, s |-> chars]
JList(items) == [t |-> "list", items |-> items, s |-> <<>>]
JDict(keys) == [t |-> "dict", items |-> keys, s |-> <<>>]

\* The ids uuid.UUID() accepts.
Uuid1 == <<"u", "1">>
Uuid2 == <<"u", "2">>
ValidUuids == {Uuid1, Uuid2}

\* The task_params texts of the tasks in the model, and what json.loads makes
\* of each: a value, or nothing (ValueError; TypeError for a missing text).
ParamTexts ==
    {"None", "not json", "5", "null", "\"ab\"", "[]", "[[], {}]", "[5, {}]",
     "[{\"k\": 1}, {}]", "[[\"x\"], {}]", "[[5], {}]", "[[\"u1\"], {}, 0]",
     "[[\"u1\"], {}]", "[[\"u2\"], {}]"}

json_loads(text) ==
    CASE text = "5" -> {JNum}
      [] text = "null" -> {JNull}
      [] text = "\"ab\"" -> {JStr(<<"a", "b">>)}
      [] text = "[]" -> {JList(<<>>)}
      [] text = "[[], {}]" -> {JList(<<JList(<<>>), JDict(<<>>)>>)}
      [] text = "[5, {}]" -> {JList(<<JNum, JDict(<<>>)>>)}
      [] text = "[{\"k\": 1}, {}]" -> {JList(<<JDict(<<JStr(<<"k">>)>>), JDict(<<>>)>>)}
      [] text = "[[\"x\"], {}]" -> {JList(<<JList(<<JStr(<<"x">>)>>), JDict(<<>>)>>)}
      [] text = "[[5], {}]" -> {JList(<<JList(<<JNum>>), JDict(<<>>)>>)}
      [] text = "[[\"u1\"], {}, 0]" ->
           {JList(<<JList(<<JStr(Uuid1)>>), JDict(<<>>), JNum>>)}
      [] text = "[[\"u1\"], {}]" -> {JList(<<JList(<<JStr(Uuid1)>>), JDict(<<>>)>>)}
      [] text = "[[\"u2\"], {}]" -> {JList(<<JList(<<JStr(Uuid2)>>), JDict(<<>>)>>)}
      [] OTHER -> {}

\* Python's len(v), for the values that have one.
HasLen(v) == v.t \in {"list", "str", "dict"}
PyLen(v) == IF v.t = "str" THEN Len(v.s) ELSE Len(v.items)

\* Iterating v: the items of a list, the characters of a str, the keys of a dict.
PyIter(v) == IF v.t = "str" THEN [i \in 1..Len(v.s) |-> JStr(<<v.s[i]>>)] ELSE v.items

CHECK_DIRECTORY == "sync.tasks.check_source_directory_exists"

\* TASK_MAP: the model of the task functions it knows.
TASK_MAP(task_func) ==
    IF task_func \in {INDEX, CHECK_DIRECTORY} THEN {"Source"}
    ELSE IF task_func \in {THUMBNAIL, DOWNLOAD} THEN {"Media"}
    ELSE {}

NoSubject == <<"None">>
Raised(e) == <<"raise", e>>

\* map_task_to_instance(task), with the (model, pk) pairs that exist: what it
\* returns, or the exception that leaves it.
map_task_to_instance(task, existing) ==
    LET model == TASK_MAP(task.task_name)
        loaded == json_loads(task.task_params)
    IN  IF model = {} THEN NoSubject
        ELSE IF loaded = {} THEN NoSubject
        ELSE LET task_args == CHOOSE v \in loaded : TRUE
             IN  IF ~HasLen(task_args) THEN Raised("TypeError")
                 ELSE IF PyLen(task_args) # 2 THEN NoSubject
                 ELSE LET args == PyIter(task_args)[1]
                      IN  IF ~HasLen(args) THEN Raised("TypeError")
                          ELSE IF PyLen(args) = 0 THEN NoSubject
                          ELSE IF args.t = "dict" THEN Raised("KeyError")
                          ELSE LET instance_uuid_str == PyIter(args)[1]
                               IN  IF instance_uuid_str.t # "str" THEN NoSubject
                                   ELSE IF instance_uuid_str.s \notin ValidUuids
                                   THEN NoSubject
                                   ELSE LET mo == CHOOSE x \in model : TRUE
                                        IN  IF <<mo, instance_uuid_str.s>> \in existing
                                            THEN <<"instance", mo, instance_uuid_str.s>>
                                            ELSE NoSubject

\* The rows a task can name: a source and a media.
Entities == {<<"Source", Uuid1>>, <<"Media", Uuid2>>}

\* The task list calls map_task_to_instance for a task.
MapTaskToInstance(task_name, task_params, existing) ==
    /\ call = NoCall
    /\ call' = [fn |-> "map_task_to_instance",
                input |-> <<[task_name |-> task_name, task_params |-> task_params],
                            existing>>,
                result |-> map_task_to_instance(
                             [task_name |-> task_name, task_params |-> task_params],
                             existing)]
    /\ UNCHANGED <<storeVars, source, media, nextPk, upstream, now, wk, lastIndexed>>

\* The longest last_error of the model, and its characters.
MaxTraceLen == 4
TraceChars == {"a", ":", " ", "\n"}
Traces == UNION {[1..n -> TraceChars] : n \in 0..MaxTraceLen}

\* The last line of the trace kept whole, where get_error_message has ''.
get_error_message_keeping_line(task) ==
    IF ~task.has_error THEN <<>>
    ELSE LET stacktrace_lines == split(strip(task.last_error), "\n")
             error_message == strip(stacktrace_lines[Len(stacktrace_lines)])
         IN  IF ~Contains(error_message, ":") THEN error_message
             ELSE strip(split_once(error_message, ":")[2])

\* get_error_message(task)
get_error_message(task) ==
    IF ~task.has_error THEN <<>>
    ELSE LET stacktrace_lines == split(strip(task.last_error), "\n")
             error_message == strip(stacktrace_lines[Len(stacktrace_lines)])
         IN  IF Len(stacktrace_lines) = 0 THEN <<>>
             ELSE IF ~Contains(error_message, ":") THEN <<>>
             ELSE strip(split_once(error_message, ":")[2])

\* The task list calls get_error_message for a task.
GetErrorMessage(has_error, last_error) ==
    /\ call = NoCall
    /\ call' = [fn |-> "get_error_message",
                input |-> <<[has_error |-> has_error, last_error |-> last_error]>>,
                result |-> <<get_error_message(
                               [has_error |-> has_error, last_error |-> last_error])>>]
    /\ UNCHANGED <<storeVars, source, media, nextPk, upstream, now, wk, lastIndexed>>

\* The text of a task name; download_media is a prefix of two other names.
TaskNameText(task_name) ==
    CASE task_name = INDEX -> <<"sync.tasks.", "index_source_task">>
      [] task_name = DOWNLOAD -> <<"sync.tasks.", "download_media">>
      [] task_name = THUMBNAIL -> <<"sync.tasks.", "download_media", "_thumbnail">>
      [] task_name = METADATA -> <<"sync.tasks.", "download_media", "_metadata">>
      [] OTHER -> <<"sync.tasks.", "rescan_media_server">>

\* The longest id given as a string, and the characters of such ids.
MaxIdLen == 2
IdChars == {"u", "1", "\""}

\* A pk is a UUID value or a string.
UuidValues == {[t |-> "UUID", int |-> n, s |-> <<>>] : n \in 1..2}
StrValues ==
    {[t |-> "str", int |-> 0, s |-> x] :
        x \in UNION {[1..n -> IdChars] : n \in 0..MaxIdLen}}
PkValues == UuidValues \cup StrValues

\* str(pk): the text of a UUID value, a string as it is.
py_str(pk) ==
    IF pk.t = "UUID" THEN <<"u", IF pk.int = 1 THEN "1" ELSE "2">> ELSE pk.s

\* The characters of s inside a JSON string: quotes and backslashes escaped.
RECURSIVE json_escape(_)
json_escape(s) ==
    IF s = <<>> THEN <<>>
    ELSE (IF s[1] \in {"\"", "\\"} THEN <<"\\", s[1]>> ELSE <<s[1]>>)
         \o json_escape(Tail(s))

\* json.dumps(((s,), {}), sort_keys=True)
json_dumps_args(s) ==
    <<"[", "[", "\"">> \o json_escape(s) \o <<"\"", "]", ",", " ", "{", "}", "]">>

\* sha1(text).hexdigest(): one digest per text.
sha1(text) == <<"sha1", text>>

\* A replacement for get_hash_sha1 that leaves the task name out.
get_hash_sha1_of_params(task_name, pk) == sha1(json_dumps_args(py_str(pk)))

\* get_hash(task_name, pk), character by character.
get_hash_sha1(task_name, pk) ==
    LET task_params == json_dumps_args(py_str(pk))
    IN  sha1(TaskNameText(task_name) \o task_params)

\* get_hash is called for two (task name, pk) pairs.
GetHash(task_name1, pk1, task_name2, pk2) ==
    /\ call = NoCall
    /\ call' = [fn |-> "get_hash",
                input |-> <<task_name1, pk1, task_name2, pk2>>,
                result |-> <<get_hash_sha1(task_name1, pk1),
                             get_hash_sha1(task_name2, pk2)>>]
    /\ UNCHANGED <<storeVars, source, media, nextPk, upstream, now, wk, lastIndexed>>

ViewNext ==
    \/ /\ call = NoCall
       /\ \E task_name \in {INDEX, CHECK_DIRECTORY, THUMBNAIL, DOWNLOAD, RESCAN},
             task_params \in ParamTexts, existing \in SUBSET Entities :
               MapTaskToInstance(task_name, task_params, existing)
    \/ /\ call = NoCall
       /\ \E has_error \in BOOLEAN, last_error \in Traces :
               GetErrorMessage(has_error, last_error)
    \/ /\ call = NoCall
       /\ \E task_name1 \in {INDEX, DOWNLOAD, THUMBNAIL, METADATA, RESCAN},
             task_name2 \in {INDEX, DOWNLOAD, THUMBNAIL, METADATA, RESCAN},
             pk1 \in PkValues, pk2 \in PkValues :
               GetHash(task_name1, pk1, task_name2, pk2)

\* The task-list helpers, applied to any task.
ViewSpec == StoreInit /\ [][ViewNext]_vars

\* ================================================================ claims
\* ------------------------------------------------------------------- C1
\* C1: the pending set holds at most one task per task id; an enqueue of an
\* id that is pending leaves every other row alone and leaves exactly one row
\* with that id: the same row without replace_existing (pending unchanged), a
\* new row in place of the old one with replace_existing.
C1_PendingOncePerId ==
    /\ [](\A t1, t2 \in pending : t1.task_hash = t2.task_hash => t1 = t2)
    /\ [][lastOp'.op = "enqueue" =>
            LET h == get_hash(lastOp'.task_name, lastOp'.arg)
                was == {t \in pending : t.task_hash = h}
                is == {t \in pending' : t.task_hash = h}
            IN  was # {} =>
                  /\ pending' \ is = pending \ was
                  /\ Cardinality(is) = 1
                  /\ ~lastOp'.flag => pending' = pending
                  /\ lastOp'.flag => is \cap was = {}]_vars

\* Two rows were inserted by triggers, nothing was dequeued or cancelled, and
\* one row is pending: the second enqueue (replace_existing) replaced the first.
C1_Witness ==
    /\ lastOp.op = "enqueue" /\ lastOp.flag
    /\ nextSerial = 3 /\ completed = {} /\ cancelled = {} /\ InFlight = {}
    /\ Cardinality(pending) = 1

\* ------------------------------------------------------------------- C2
\* C2: no two workers run tasks with the same task id, and no task id is both
\* pending and in flight.
C2_OneExecutionPerId ==
    /\ \A w1, w2 \in Workers :
         (w1 # w2 /\ locked[w1] # NoTask /\ locked[w2] # NoTask)
            => locked[w1].task_hash # locked[w2].task_hash
    /\ \A w \in Workers : \A t \in pending :
         locked[w] # NoTask => t.task_hash # locked[w].task_hash

\* A completed download requested the rescans (replace_existing) while a
\* rescan task of an earlier download is in flight.
C2_Witness ==
    /\ lastOp.op = "rescans"
    /\ \E w \in Workers : locked[w].task_name = RESCAN

\* ------------------------------------------------------------------- C3
\* C3: no Task row is held by two workers, and a row a worker holds is no
\* longer in the pending set.
C3_DequeueHandsOutOnce ==
    /\ \A w1, w2 \in Workers :
         (w1 # w2 /\ locked[w1] # NoTask) => locked[w1].serial # locked[w2].serial
    /\ \A w \in Workers : \A t \in pending : t.serial # locked[w].serial

\* Both workers hold a task at once.
C3_Witness == \A w \in Workers : locked[w] # NoTask

\* ------------------------------------------------------------------- C4
\* C4: a row removed by delete_task_by_source(task_name, source_id) is never
\* pending or in flight again, and the call removes exactly the pending rows
\* of that task name and queue.
C4_CancelledNeverDequeued ==
    /\ [](/\ \A w \in Workers : locked[w].serial \notin cancelled
          /\ \A t \in pending : t.serial \notin cancelled)
    /\ [][lastOp'.op = "cancel" =>
            /\ pending' \subseteq pending
            /\ \A t \in pending :
                 (t \in pending') <=> ~(t.task_name = lastOp'.task_name
                                        /\ t.queue = lastOp'.arg)]_vars

\* A worker dequeues a task after a cancel removed pending rows.
C4_Witness ==
    /\ cancelled # {}
    /\ lastOp.op = "dequeue"
    /\ pending # {}

\* ------------------------------------------------------------------- C5
\* C5: an index run that ends successfully and saw the same non-empty items
\* as the source's previous successful run has created no Media row, changed
\* no field of a Media row, and changed no field of the source other than
\* last_crawl.
C5_SecondRunIdempotent ==
    \A w \in StageWorkers :
      (wk[w].task = INDEX /\ wk[w].pc = "done") =>
        \A sn \in wk[w].snap :
          sn.videos = {wk[w].videos} =>
            /\ media \subseteq sn.media
            /\ [source[wk[w].src] EXCEPT !.last_crawl = None]
                 = [sn.source EXCEPT !.last_crawl = None]

\* ------------------------------------------------------------------- C6
\* C6: there is at most one Media row per (source, key) pair while index runs
\* of one source interleave; no run ends with the IntegrityError of a lost
\* race, and a run that lost a race and came to its end has gone through its
\* whole batch: every video with a key has its row.
C6_UniqueAndLoserGoesOn ==
    /\ \A m1, m2 \in media :
         (m1.source = m2.source /\ m1.key = m2.key) => m1 = m2
    /\ \A w \in Workers :
         /\ wk[w].err # "IntegrityError"
         /\ wk[w].collided # {} => wk[w].pc # "failed"
         /\ (wk[w].collided # {} /\ wk[w].pc = "done") =>
              \A v \in wk[w].videos \ {NoKey} :
                \E m \in media : m.source = wk[w].src /\ m.key = v

\* A run that lost the race for a video has finished its batch and the sweeps.
C6_Witness ==
    \E w \in Workers :
      /\ wk[w].pc = "done"
      /\ wk[w].collided # {}
      /\ Cardinality(wk[w].videos \ {NoKey}) > 1

\* ------------------------------------------------------------------- C7
\* C7: an index run ends as a failed task exactly when its enumeration came
\* back empty.
C7_FailsIffEmptyEnumeration ==
    \A w \in StageWorkers :
      (wk[w].task = INDEX /\ wk[w].pc \in {"done", "failed"}) =>
        (wk[w].pc = "failed" <=> wk[w].videos = {})

\* ------------------------------------------------------------------- C8
\* C8: an index run whose enumeration returned items never ends as a failed
\* task, whatever happens inside the sweeps that follow the loop.
C8_SweepFailureSwallowed ==
    \A w \in StageWorkers :
      (wk[w].task = INDEX /\ wk[w].videos # {}) => wk[w].pc # "failed"

\* ------------------------------------------------------------------- C9
\* C9: the last step of a successful index run deletes, when the source has
\* delete_removed_media, exactly the source's downloaded Media rows whose key
\* no item of the enumeration has, and nothing without the flag; rows that
\* are not downloaded stay, present upstream or not.
C9_RemovesDownloadedAbsentRows ==
    [][\A w \in StageWorkers :
         (wk[w].pc = "cleanup_removed" /\ wk'[w].pc = "done") =>
           /\ media' \subseteq media
           /\ media \ media' =
                IF source[wk[w].src].delete_removed_media
                THEN {m \in media : /\ m.source = wk[w].src
                                    /\ m.downloaded
                                    /\ m.key \notin wk[w].videos}
                ELSE {}]_vars

\* A run on a source with delete_removed_media deleted a downloaded row that
\* left the remote list and kept a row, never downloaded, that left it too.
C9_Witness ==
    \E w \in StageWorkers :
      /\ wk[w].pc = "done"
      /\ wk[w].removed # {}
      /\ \E m \in media : /\ m.source = wk[w].src
                          /\ ~m.downloaded
                          /\ m.key \notin wk[w].videos

\* C9 as stated: after that step no row of a source with delete_removed_media
\* has a key absent from the enumeration, downloaded or not; only such rows
\* are deleted.
C9_RemovesEveryAbsentRow ==
    [][\A w \in StageWorkers :
         (wk[w].pc = "cleanup_removed" /\ wk'[w].pc = "done") =>
           /\ media' \subseteq media
           /\ media \ media' =
                IF source[wk[w].src].delete_removed_media
                THEN {m \in media : /\ m.source = wk[w].src
                                    /\ m.key \notin wk[w].videos}
                ELSE {}]_vars

\* ------------------------------------------------------------------ C10
\* C10: cleanup_old_media deletes a Media row if and only if its source has
\* delete_old_media and days_to_keep > 0, the row is downloaded, and its
\* download_date < now - days_to_keep. A sweep that an error ends early has
\* deleted only such rows.
C10_PurgesExpiredOfPositiveWindow ==
    [][\A w \in StageWorkers :
         wk[w].pc = "cleanup_old" =>
           LET expired == {m \in media :
                             /\ source[m.source].delete_old_media
                             /\ source[m.source].days_to_keep > 0
                             /\ m.downloaded
                             /\ \E d \in m.download_date :
                                  d < now - source[m.source].days_to_keep}
           IN  /\ media' \subseteq media
               /\ media \ media' \subseteq expired
               /\ wk'[w].pc = "cleanup_removed" => media \ media' = expired]_vars

\* The sweep deleted a row and kept a downloaded row that is older than now,
\* of a source with delete_old_media and days_to_keep = 0.
C10_Witness ==
    \E w \in StageWorkers :
      /\ wk[w].pc = "cleanup_removed"
      /\ wk[w].purged # {}
      /\ \E m \in media : /\ m.downloaded
                          /\ source[m.source].delete_old_media
                          /\ source[m.source].days_to_keep = 0
                          /\ \E d \in m.download_date : d < now

\* C10 as stated: the sweep deletes a row if and only if its source has
\* delete_old_media, the row is downloaded, and download_date < now -
\* days_to_keep, for every days_to_keep >= 0.
C10_PurgesExpiredOfAnyWindow ==
    [][\A w \in StageWorkers :
         (wk[w].pc = "cleanup_old" /\ wk'[w].pc = "cleanup_removed") =>
           /\ media' \subseteq media
           /\ media \ media' =
                {m \in media :
                   /\ source[m.source].delete_old_media
                   /\ source[m.source].days_to_keep >= 0
                   /\ m.downloaded
                   /\ \E d \in m.download_date :
                        d < now - source[m.source].days_to_keep}]_vars

\* ------------------------------------------------------------------ C11
\* C11: a download_media run on a media with downloaded = true writes
\* nothing: the downloader is not called, the Media rows and the pending
\* tasks are as before, and the task does not fail.
C11_DownloadedMediaUntouched ==
    [][\A w \in StageWorkers :
         (wk[w].pc = "idle" /\ wk'[w].task = DOWNLOAD
            /\ \E m \in media : m.pk = wk'[w].pk /\ m.downloaded) =>
           /\ wk'[w].ext = {}
           /\ media' = media
           /\ pending' = pending
           /\ wk'[w].pc = "done"]_vars

\* ------------------------------------------------------------------ C12
\* C12: a download_media run on a media with can_download = false does not
\* call the downloader and leaves the Media rows as they are.
C12_NoDownloadWithoutCanDownload ==
    [][\A w \in StageWorkers :
         (wk[w].pc = "idle" /\ wk'[w].task = DOWNLOAD
            /\ \E m \in media : m.pk = wk'[w].pk /\ ~m.can_download) =>
           /\ wk'[w].ext = {}
           /\ media' = media]_vars

\* ------------------------------------------------------------------ C13
\* C13: a download_media run on a media that is marked skip, or whose source
\* has download_media = false, or whose source has a cap date with the media
\* published on or before it, is a silent no-op: no downloader call, no Media
\* row changed, no task enqueued, no error.
C13_PreconditionFailureIsNoOp ==
    [][\A w \in StageWorkers :
         (wk[w].pc = "idle" /\ wk'[w].task = DOWNLOAD
            /\ \E m \in media :
                 /\ m.pk = wk'[w].pk
                 /\ \/ m.skip
                    \/ ~source[m.source].download_media
                    \/ \E c \in source[m.source].download_cap_date :
                         \E p \in m.published : ~(p > c)) =>
           /\ wk'[w].ext = {}
           /\ media' = media
           /\ pending' = pending /\ nextSerial' = nextSerial
           /\ wk'[w].pc = "done" /\ wk'[w].err = ""]_vars

\* A download task ended as a no-op for a media that is not skipped, not
\* downloaded, of a source that wants downloads, published on the cap date.
C13_Witness ==
    \E w \in StageWorkers :
      /\ wk[w].task = DOWNLOAD /\ wk[w].pc = "done" /\ wk[w].ext = {}
      /\ \E m \in media :
           /\ m.pk = wk[w].pk
           /\ ~m.skip /\ ~m.downloaded /\ source[m.source].download_media
           /\ m.published # None
           /\ m.published = source[m.source].download_cap_date

\* ------------------------------------------------------------------ C14
\* C14: a download_media run whose downloader left no file ends as a failed
\* task with DownloadFailedException; the Media rows are as before (a media
\* that was not downloaded is still not downloaded, its descriptors are
\* unchanged) and no task is enqueued.
C14_MissingFileFailsWithoutWrites ==
    [][\A w \in StageWorkers :
         (wk[w].pc = "idle" /\ wk'[w].task = DOWNLOAD
            /\ \E g \in wk'[w].got : ~g.file_exists) =>
           /\ wk'[w].pc = "failed" /\ wk'[w].err = "DownloadFailedException"
           /\ media' = media
           /\ \A m \in media : \A m2 \in media' :
                (m.pk = wk'[w].pk /\ m2.pk = m.pk) => (m2.downloaded = m.downloaded)
           /\ pending' = pending /\ nextSerial' = nextSerial]_vars

\* A download task failed for want of the file; its media is not downloaded
\* and, with a media server configured, no task is pending.
C14_Witness ==
    \E w \in StageWorkers :
      /\ wk[w].task = DOWNLOAD /\ wk[w].pc = "failed"
      /\ wk[w].err = "DownloadFailedException"
      /\ \E g \in wk[w].got : ~g.file_exists
      /\ \E m \in media : m.pk = wk[w].pk /\ ~m.downloaded
                          /\ m.downloaded_format = None
      /\ mediaservers # {} /\ pending = {}

\* ------------------------------------------------------------------ C15
\* C15: a download_media_metadata run that fetched the metadata leaves a media
\* whose published date is on or before its source's cap date with skip =
\* true, and does not set its can_download to true.
C15_MetadataSkipsUpToCapDate ==
    [][\A w \in StageWorkers :
         (wk[w].pc = "idle" /\ wk'[w].task = METADATA /\ wk'[w].ext # {}) =>
           \A m \in media : \A m2 \in media' :
             (/\ m.pk = wk'[w].pk /\ m2.pk = m.pk
              /\ \E c \in source[m.source].download_cap_date :
                   \E p \in m2.published : p <= c)
               => (m2.skip /\ (m2.can_download => m.can_download))]_vars

\* ------------------------------------------------------------------ C20
\* C20: a download_media run that found its file saves the media with
\* downloaded = true and the descriptors of the returned format code: of
\* "137+140", the video fields of format 137 and the audio codec of format
\* 140; of "22", video and audio fields of format 22; of "140", which has no
\* video codec, downloaded_format = "audio", the audio codec of format 140 and
\* the video fields as they were.
C20_DescriptorsFromFormatCode ==
    [][\A w \in StageWorkers :
         (wk[w].pc = "idle" /\ wk'[w].task = DOWNLOAD
            /\ \E g \in wk'[w].got : g.file_exists) =>
           \A g \in wk'[w].got : \A m \in media : \A m2 \in media' :
             (m.pk = wk'[w].pk /\ m2.pk = m.pk) =>
               LET V == get_format_by_code(<<"1", "3", "7">>)
                   A == get_format_by_code(<<"1", "4", "0">>)
                   C == get_format_by_code(<<"2", "2">>)
                   video(f) ==
                     /\ m2.downloaded_format = {f.format}
                     /\ m2.downloaded_width = {f.width}
                     /\ m2.downloaded_height = {f.height}
                     /\ m2.downloaded_video_codec = f.vcodec
                     /\ m2.downloaded_fps = {f.fps}
                     /\ m2.downloaded_hdr = {f.is_hdr}
               IN  /\ m2.downloaded
                   /\ g.format_str = <<"1", "3", "7", "+", "1", "4", "0">> =>
                        (video(V) /\ m2.downloaded_audio_codec = A.acodec)
                   /\ g.format_str = <<"2", "2">> =>
                        (video(C) /\ m2.downloaded_audio_codec = C.acodec)
                   /\ g.format_str = <<"1", "4", "0">> =>
                        /\ m2.downloaded_format = {"audio"}
                        /\ m2.downloaded_audio_codec = A.acodec
                        /\ m2.downloaded_width = m.downloaded_width
                        /\ m2.downloaded_height = m.downloaded_height
                        /\ m2.downloaded_video_codec = m.downloaded_video_codec
                        /\ m2.downloaded_fps = m.downloaded_fps
                        /\ m2.downloaded_hdr = m.downloaded_hdr]_vars

\* A download with the split code "137+140" was saved: the media is
\* downloaded, with the video codec of 137 and the audio codec of 140.
C20_Witness ==
    \E w \in StageWorkers :
      /\ wk[w].task = DOWNLOAD /\ wk[w].pc = "done"
      /\ \E g \in wk[w].got : g.file_exists /\ Contains(g.format_str, "+")
      /\ \E m \in media : /\ m.pk = wk[w].pk /\ m.downloaded
                          /\ m.downloaded_video_codec = {"avc1"}
                          /\ m.downloaded_audio_codec = {"mp4a"}


\* C16: map_task_to_instance never raises, whatever the task's parameter text
\* is, and it returns an entity only for a recognised task function whose
\* first argument is the id of an existing row.
C16_NeverRaises ==
    call.fn = "map_task_to_instance" =>
        /\ call.result[1] # "raise"
        /\ call.result[1] = "instance" =>
             /\ TASK_MAP(call.input[1].task_name) # {}
             /\ <<call.result[2], call.result[3]>> \in call.input[2]

\* C17: get_error_message is '' for a task that did not fail, and otherwise
\* works on the last line of the stripped trace, stripped: a line with no colon
\* gives '', and a line with one gives what follows its first colon, stripped.
C17_MessageAfterFirstColon ==
    call.fn = "get_error_message" =>
        LET task == call.input[1]
            T == strip(task.last_error)
            breaks == {i \in 1..Len(T) : T[i] = "\n"}
            k == IF breaks = {} THEN 0 ELSE CHOOSE i \in breaks : \A j \in breaks : j <= i
            L == strip(SubSeq(T, k + 1, Len(T)))
            colons == {i \in 1..Len(L) : L[i] = ":"}
        IN  /\ ~task.has_error => call.result[1] = <<>>
            /\ task.has_error /\ colons = {} => call.result[1] = <<>>
            /\ task.has_error /\ colons # {} =>
                 \E i \in colons :
                    /\ \A j \in colons : i <= j
                    /\ call.result[1] = strip(SubSeq(L, i + 1, Len(L)))

\* a failed task whose last line has text before and after a colon
C17_Witness ==
    /\ call.fn = "get_error_message"
    /\ call.input[1].has_error
    /\ call.input[1].last_error = <<"\n", "a", ":", "a">>
    /\ call.result[1] = <<"a">>

\* C17 as stated: a last line with no prefix is returned as it is.
C17_LineWithoutPrefixKept ==
    call.fn = "get_error_message" =>
        LET task == call.input[1]
            T == strip(task.last_error)
            breaks == {i \in 1..Len(T) : T[i] = "\n"}
            k == IF breaks = {} THEN 0 ELSE CHOOSE i \in breaks : \A j \in breaks : j <= i
            L == strip(SubSeq(T, k + 1, Len(T)))
            colons == {i \in 1..Len(L) : L[i] = ":"}
        IN  /\ ~task.has_error => call.result[1] = <<>>
            /\ task.has_error /\ colons = {} => call.result[1] = L
            /\ task.has_error /\ colons # {} =>
                 \E i \in colons :
                    /\ \A j \in colons : i <= j
                    /\ call.result[1] = strip(SubSeq(L, i + 1, Len(L)))

\* C18: there is at most one pending rescan task per media server, and the
\* rescans a completed download schedules replace the pending ones: after the
\* download, the pending rescan of each configured server with no rescan in
\* flight is a row inserted by this download.
C18_OnePendingRescanPerServer ==
    /\ [](\A ms \in MediaServerIds :
            Cardinality({t \in pending : t.task_name = RESCAN /\ t.arg = ms}) <= 1)
    /\ [][lastOp'.op = "rescans" =>
            \A ms \in mediaservers :
               (\A t \in InFlight : ~(t.task_name = RESCAN /\ t.arg = ms)) =>
                  \E t \in pending' :
                     /\ t.task_name = RESCAN /\ t.arg = ms
                     /\ t.serial >= nextSerial /\ t \notin pending]_vars

\* Two downloads completed (rows 1 and 3); the rescan the first scheduled
\* (row 2) never ran and was not cancelled, and the pending rescan is row 4.
C18_Witness ==
    /\ lastOp.op = "rescans"
    /\ {c.serial : c \in completed} = {1, 3}
    /\ cancelled = {} /\ InFlight = {}
    /\ \E t \in pending : t.task_name = RESCAN /\ t.serial = 4

\* C19: a stage task that starts when the row it names is gone (the Source of
\* index_source_task, the Media of download_media_metadata,
\* download_media_thumbnail and download_media, the MediaServer of
\* rescan_media_server) ends at once without an error, calls no external
\* function, writes nothing to the catalog and schedules no task.
C19_GoneEntityIsNoOp ==
    [][\A w \in Workers :
         (/\ wk[w].pc = "idle" /\ wk'[w].pc # "idle"
          /\ \/ wk'[w].task = INDEX /\ ~source[wk'[w].src].exists
             \/ /\ wk'[w].task \in {METADATA, THUMBNAIL, DOWNLOAD}
                /\ \A m \in media : m.pk # wk'[w].pk
             \/ wk'[w].task = RESCAN /\ wk'[w].src \notin mediaservers)
         => /\ wk'[w].pc = "done" /\ wk'[w].err = ""
            /\ wk'[w].ext = {} /\ wk'[w].got = {}
            /\ source' = source /\ media' = media /\ mediaservers' = mediaservers
            /\ pending' = pending /\ nextSerial' = nextSerial]_vars

\* The source, its media and the media server are gone; one worker has run
\* index_source_task and the other rescan_media_server.
C19_Witness ==
    /\ ~source["s1"].exists /\ media = {} /\ mediaservers = {}
    /\ wk["w1"].pc = "done" /\ wk["w1"].task = INDEX /\ wk["w1"].src = "s1"
    /\ wk["w2"].pc = "done" /\ wk["w2"].task = RESCAN /\ wk["w2"].src = "ms1"

\* C21: get_hash gives two (task name, pk) pairs the same hash exactly when
\* the task names are equal and the pks are the same id, a UUID value and its
\* string form being the same id.
C21_HashIsKeyOfKindAndId ==
    call.fn = "get_hash" =>
        LET SameId(p, q) ==
                \/ p = q
                \/ p.t = "UUID" /\ q.t = "str" /\ q.s = py_str(p)
                \/ q.t = "UUID" /\ p.t = "str" /\ p.s = py_str(q)
        IN  (call.result[1] = call.result[2])
              <=> (/\ call.input[1] = call.input[3]
                   /\ SameId(call.input[2], call.input[4]))

\* the same task name, the id once as a UUID value and once as its string
C21_Witness ==
    /\ call.fn = "get_hash"
    /\ call.input[1] = DOWNLOAD /\ call.input[3] = DOWNLOAD
    /\ call.input[2].t = "UUID" /\ call.input[4].t = "str"
    /\ call.result[1] = call.result[2]

\* C22: a Media row with skip = true keeps skip = true in every step of every
\* stage (index_source_task, download_media_metadata, download_media_thumbnail,
\* download_media) for as long as the row exists, and a row that is skipped and
\* not downloaded does not become downloaded.
C22_SkipIsAbsorbing ==
    [][\A m \in media : \A m2 \in media' :
         (m.skip /\ m2.pk = m.pk) =>
            /\ m2.skip
            /\ ~m.downloaded => ~m2.downloaded]_vars


\* C23: a download_media_metadata or download_media run on a media with
\* manual_skip = true calls no external function, leaves the Media rows as
\* they are (downloaded stays false), enqueues nothing and ends without an
\* error.
C23_ManualSkipNeverProcessed ==
    [][\A w \in StageWorkers :
         (wk[w].pc = "idle" /\ wk'[w].task \in {METADATA, DOWNLOAD}
            /\ \E m \in media : m.pk = wk'[w].pk /\ m.manual_skip) =>
           /\ wk'[w].ext = {}
           /\ media' = media
           /\ pending' = pending
           /\ wk'[w].pc = "done" /\ wk'[w].err = ""]_vars

\* C24: under fair scheduling every task row that is pending or in flight is
\* in the end in the completed tasks, unless it is cancelled or replaced by a
\* newer row of the same task; no row has more than MaxAttempts attempts, and
\* a task completed as failed has had them all and carries its error text.
C24_EveryTaskCompletes ==
    /\ [](\A t \in pending \cup InFlight : t.attempts < MaxAttempts)
    /\ [](\A c \in completed :
            c.failed => (c.attempts = MaxAttempts /\ c.last_error # ""))
    /\ \A h \in RetryTriggers \cup {<<RESCAN, "ms1">>} : \A k \in 1..MaxSerial :
         (\E t \in pending \cup InFlight :
             t.serial = k /\ t.task_hash = get_hash(h[1], h[2]))
         ~> \/ \E c \in completed : c.serial = k
            \/ k \in cancelled
            \/ \E t \in pending \cup InFlight :
                  t.task_hash = get_hash(h[1], h[2]) /\ t.serial > k

\* A download task that failed on every attempt is in the completed tasks,
\* failed, with its error.
C24_Witness ==
    \E c \in completed :
       /\ c.failed /\ c.attempts = MaxAttempts
       /\ c.last_error = "DownloadFailedException"
       /\ lastOp.op = "reschedule"

\* C25: a Media row with downloaded = true keeps downloaded = true and its
\* download descriptors in every step of every stage, whichever stages run at
\* the same time on the row, for as long as the row exists.
C25_DownloadedStaysUnderOverlap ==
    [][\A m \in media : \A m2 \in media' :
         (m.downloaded /\ m2.pk = m.pk) =>
            /\ m2.downloaded
            /\ m2.media_file = m.media_file
            /\ m2.download_date = m.download_date
            /\ m2.downloaded_format = m.downloaded_format
            /\ m2.downloaded_container = m.downloaded_container]_vars

\* C26: a media that download_media_metadata saves as downloadable (skip =
\* false, can_download = true) is not refused for the cap date by
\* download_media's check of the saved row.
C26_SameCapRule ==
    [][\A w \in StageWorkers :
         (wk[w].pc = "idle" /\ wk'[w].task = METADATA /\ wk'[w].ext # {}) =>
            \A m2 \in media' :
               (m2.pk = wk'[w].pk /\ ~m2.skip /\ m2.can_download) =>
                  download_media_refusal(m2, source'[m2.source]) # "cap"]_vars

\* C27: after a download_media_metadata run that fetched the metadata, a row
\* saved with skip = true has can_download = false.
C27_SkippedIsNotDownloadable ==
    [][\A w \in StageWorkers :
         (wk[w].pc = "idle" /\ wk'[w].task = METADATA /\ wk'[w].ext # {}) =>
            \A m2 \in media' :
               (m2.pk = wk'[w].pk /\ m2.skip) => ~m2.can_download]_vars

\* C28: an index_source_task run that finds its source saves has_failed =
\* false before it calls the enumeration and never sets it; a run that fails
\* with NoMediaException leaves the source with has_failed = false and with
\* the last_crawl it had.
C28_IndexClearsHasFailed ==
    /\ [](\A w \in StageWorkers :
            (wk[w].task = INDEX /\ wk[w].pc # "idle") =>
               ~source[wk[w].src].has_failed)
    /\ [][\A w \in StageWorkers :
            /\ (wk[w].pc = "idle" /\ wk'[w].task = INDEX) =>
                  /\ wk'[w].pc = "index_media" /\ wk'[w].ext = {}
                  /\ ~source'[wk'[w].src].has_failed
                  /\ source'[wk'[w].src].last_crawl = source[wk'[w].src].last_crawl
            /\ (wk[w].pc = "index_media" /\ wk'[w].err = "NoMediaException") =>
                  /\ wk'[w].pc = "failed"
                  /\ ~source'[wk[w].src].has_failed
                  /\ source'[wk[w].src].last_crawl = source[wk[w].src].last_crawl]_vars

\* The source that had has_failed = true at the start was indexed on day 0;
\* a later run, on another day, failed with an empty enumeration.
C28_Witness ==
    \E w \in StageWorkers :
       /\ wk[w].pc = "failed" /\ wk[w].err = "NoMediaException"
       /\ source[wk[w].src].delete_removed_media
       /\ source[wk[w].src].delete_old_media
       /\ ~source[wk[w].src].has_failed
       /\ source[wk[w].src].last_crawl = {0}
       /\ now > 0
====
